---- MODULE Spec2Model ----
(***************************************************************************)
(* Model of make.cc: the include scanner and resolver, the tree index,    *)
(* the process runner and the self-rebuild bootstrap.                     *)
(*                                                                         *)
(* Text (std::string, std::string_view, std::filesystem::path) is a       *)
(* sequence of one-character strings.  The file system is a set of        *)
(* directories and a set of regular files, both named by their canonical  *)
(* absolute path; there are no symbolic links in the modelled trees.      *)
(***************************************************************************)
EXTENDS Integers, Sequences, FiniteSets, TLC

VARIABLES
    files,              \* canonical paths of the regular files that exist
    cwd,                \* current working directory of the process
    r_include,          \* resolve: argument `include`
    r_include_paths,    \* resolve: argument `include_paths`
    r_relative_to,      \* resolve: argument `relative_to`
    r_result,           \* resolve: returned optional
    r_pc,               \* "idle" before the call, "done" after it
    i_search_path,      \* includes_in_directory: argument `search_path`
    i_extensions,       \* includes_in_directory: argument `extensions`
    i_pending,          \* entries the directory iterator has yet to yield
    includes_per_file,  \* includes_in_directory: the map being built
    i_pc,               \* "idle", "loop" (inside the for), "done" (returned)
    pc,                 \* where the calling process is
    trace,              \* what the calling process has done so far, in order
    program_mtime,      \* last_write_time(program_path)
    start_mtime,        \* last_write_time(program_path) when the process started
    source_mtime,       \* last_write_time(source_path)
    old_program,        \* what the file program_path + ".old" holds
    argv,               \* cmd_run: the argument vector
    caller,             \* cmd_run: the call site it returns to
    child_pid,          \* cmd_run: what fork returned in the calling process
    child,              \* the forked process: its state and wait status
    stops,              \* how often the child has been stopped
    status,             \* the Status cmd_run returned last
    compile_result,     \* run_and_check of the compile command: `result`
    exit_code,          \* the exit code of the calling process, once it exited
    cout,               \* the lines the calling process wrote to std::cout
    s_file,             \* includes: the lines of the file being read
    s_rest,             \* includes: the lines std::getline has yet to deliver
    s_line,             \* includes: `line`
    s_l,                \* includes: `l`, the part of the line left to read
    s_state,            \* includes: `state`
    s_includes,         \* includes: the set `includes`
    s_pc,               \* "idle", "getline", "scan", "next_line", "done"
    s_visited,          \* the states the switch has handled for this line, in order
    s_line_out,         \* the Includes emplaced for this line
    s_emits,            \* how many times emplace was called for this line
    run_success,        \* a direct caller of cmd_run: bool(status)
    run_exit_code,      \* a direct caller of cmd_run: status.normalize_to_exit_code()
    e_value,            \* flags_from_env: what getenv returned
    e_args,             \* flags_from_env: the returned vector
    e_cxx,              \* or_default(flags_from_env(...), compiler::gcc)
    e_pc,               \* "idle", "call", "done", "aborted"
    procs,              \* the chain of running instances of the program, outermost first
    compiles,           \* how many compiler commands the chain has issued
    reexecs             \* how many re-executions the chain has issued

resolveVars == <<r_include, r_include_paths, r_relative_to, r_result, r_pc>>

indexVars == <<i_search_path, i_extensions, i_pending, includes_per_file, i_pc>>

fileTimes == <<program_mtime, start_mtime, source_mtime, old_program>>

runVars == <<argv, caller, child_pid, child, stops, status>>

bootVars == <<pc, trace, fileTimes, runVars, compile_result, exit_code, cout>>

scanVars ==
    <<s_file, s_rest, s_line, s_l, s_state, s_includes, s_pc, s_visited,
      s_line_out, s_emits>>

callVars == <<run_success, run_exit_code>>

envVars == <<e_value, e_args, e_cxx, e_pc>>

chainVars == <<procs, compiles, reexecs>>

-----------------------------------------------------------------------------
(* Bounds of the model *)

\* most instances of the program in one chain of re-executions
MaxDepth == 3

\* longest value of an environment variable
MaxEnvLen == 4

\* most lines of a file built from the short lines
MaxLines == 2

\* longest list of search directories handed to resolve
MaxPaths == 2

\* latest modification time of a file
MaxTime == 2

\* how often a child is stopped and continued before it terminates
MaxStops == 1

-----------------------------------------------------------------------------
(* Names used by the modelled trees *)

SLASH == <<"/">>
PROJ == <<"/", "p", "r", "o", "j">>
SRC == PROJ \o <<"/", "s", "r", "c">>
INCLUDE_DIR == PROJ \o <<"/", "i", "n", "c", "l", "u", "d", "e">>
LIB == PROJ \o <<"/", "l", "i", "b">>
B_H == <<"b", ".", "h">>
A_CC == <<"a", ".", "c", "c">>
NOTES_TXT == <<"n", "o", "t", "e", "s", ".", "t", "x", "t">>
REL_INCLUDE == <<"i", "n", "c", "l", "u", "d", "e">>

SRC_A_CC == SRC \o SLASH \o A_CC
SRC_B_H == SRC \o SLASH \o B_H
SRC_NOTES == SRC \o SLASH \o NOTES_TXT
INCLUDE_B_H == INCLUDE_DIR \o SLASH \o B_H
LIB_B_H == LIB \o SLASH \o B_H

\* directories of every modelled tree
Dirs == {SLASH, PROJ, SRC, INCLUDE_DIR, LIB}

\* regular files a modelled tree may hold
CandidateFiles == {SRC_A_CC, SRC_B_H, SRC_NOTES, INCLUDE_B_H, LIB_B_H}

WorkingDirs == {PROJ, SRC}

-----------------------------------------------------------------------------
(* std::filesystem on a POSIX system *)

\* the result of a path walk that fails (ENOENT, ENOTDIR)
NoEntry == <<"?">>

\* std::optional without a value
nullopt == <<"nullopt">>

\* path::is_absolute
is_absolute(p) == Len(p) > 0 /\ p[1] = "/"

\* operator/ : an absolute right side replaces the left one, otherwise the
\* right side is appended after a separator
PathAppend(a, b) ==
    IF is_absolute(b) THEN b
    ELSE IF a = <<>> \/ a[Len(a)] = "/" THEN a \o b
    ELSE a \o SLASH \o b

\* the file names of a path, in order (an empty name between or after separators)
RECURSIVE Split(_)
Split(s) ==
    IF s = <<>> THEN << <<>> >>
    ELSE LET r == Split(Tail(s)) IN
         IF Head(s) = "/" THEN << <<>> >> \o r
         ELSE << <<Head(s)>> \o r[1] >> \o Tail(r)

\* the directory holding a canonical path
Parent(c) ==
    IF c = SLASH THEN SLASH
    ELSE LET i == CHOOSE k \in 1..Len(c) :
                      c[k] = "/" /\ \A j \in (k+1)..Len(c) : c[j] # "/"
         IN IF i = 1 THEN SLASH ELSE SubSeq(c, 1, i - 1)

\* the entry `name` of directory c
Child(c, name) == IF c = SLASH THEN c \o name ELSE c \o SLASH \o name

\* one step of the kernel's path walk from canonical path cur
WalkStep(fs, cur, name) ==
    IF cur \notin Dirs THEN NoEntry
    ELSE IF name = <<>> \/ name = <<".">> THEN cur
    ELSE IF name = <<".", ".">> THEN Parent(cur)
    ELSE IF Child(cur, name) \in Dirs \cup fs THEN Child(cur, name)
    ELSE NoEntry

RECURSIVE Walk(_, _, _)
Walk(fs, cur, names) ==
    IF names = <<>> THEN cur
    ELSE Walk(fs, WalkStep(fs, cur, Head(names)), Tail(names))

\* the canonical path p names in file system fs seen from directory wd
Lookup(fs, wd, p) ==
    IF p = <<>> THEN NoEntry
    ELSE Walk(fs, IF is_absolute(p) THEN SLASH ELSE wd, Split(p))

\* std::filesystem::is_regular_file
is_regular_file(fs, wd, p) == Lookup(fs, wd, p) \in fs

\* std::filesystem::canonical, of a path that exists
canonical(fs, wd, p) == Lookup(fs, wd, p)

-----------------------------------------------------------------------------
(* make::resolve *)

\* a search in which the last directory that holds p wins
RECURSIVE SearchFrom_LastMatch(_, _, _, _, _)
SearchFrom_LastMatch(fs, wd, p, include_paths, i) ==
    IF i > Len(include_paths) THEN nullopt
    ELSE LET relative == PathAppend(include_paths[i], p)
             later == SearchFrom_LastMatch(fs, wd, p, include_paths, i + 1)
         IN IF later # nullopt THEN later
            ELSE IF is_regular_file(fs, wd, relative) THEN canonical(fs, wd, relative)
            ELSE nullopt

\* the first directory of include_paths, from position i on, that holds p
RECURSIVE SearchFrom(_, _, _, _, _)
SearchFrom(fs, wd, p, include_paths, i) ==
    IF i > Len(include_paths) THEN nullopt
    ELSE LET relative == PathAppend(include_paths[i], p) IN
         IF is_regular_file(fs, wd, relative) THEN canonical(fs, wd, relative)
         ELSE SearchFrom(fs, wd, p, include_paths, i + 1)

\* a resolver that tries relative_to for angle-bracket includes too
resolve_AlwaysRelative(fs, wd, include, include_paths, relative_to) ==
    LET p == include.include IN
    IF is_regular_file(fs, wd, p) THEN canonical(fs, wd, p)
    ELSE IF is_absolute(p) THEN nullopt
    ELSE IF is_regular_file(fs, wd, PathAppend(relative_to, p))
         THEN canonical(fs, wd, PathAppend(relative_to, p))
    ELSE SearchFrom(fs, wd, p, include_paths, 1)

\* a resolver without the absolute-path test that joins directory and target
\* as text (directory + "/" + target) instead of with operator/
resolve_AbsoluteFallsBack(fs, wd, include, include_paths, relative_to) ==
    LET p == include.include
        joined == [i \in 1..Len(include_paths) |-> include_paths[i] \o SLASH \o p]
        hits == {i \in 1..Len(include_paths) : is_regular_file(fs, wd, joined[i])}
    IN
    IF is_regular_file(fs, wd, p) THEN canonical(fs, wd, p)
    ELSE IF include.maybe_relative
            /\ is_regular_file(fs, wd, relative_to \o SLASH \o p)
         THEN canonical(fs, wd, relative_to \o SLASH \o p)
    ELSE IF hits = {} THEN nullopt
    ELSE canonical(fs, wd, joined[CHOOSE i \in hits : \A j \in hits : i <= j])

resolve(fs, wd, include, include_paths, relative_to) ==
    LET p == include.include IN
    IF is_regular_file(fs, wd, p) THEN canonical(fs, wd, p)
    ELSE IF is_absolute(p) THEN nullopt
    ELSE IF include.maybe_relative
            /\ is_regular_file(fs, wd, PathAppend(relative_to, p))
         THEN canonical(fs, wd, PathAppend(relative_to, p))
    ELSE SearchFrom(fs, wd, p, include_paths, 1)

\* inputs of the modelled calls
Targets ==
    { B_H, SLASH \o B_H, INCLUDE_B_H, SRC_B_H,
      <<".", ".", "/">> \o REL_INCLUDE \o SLASH \o B_H,
      REL_INCLUDE \o SLASH \o B_H, <<>> }

Includes == [include : Targets, maybe_relative : BOOLEAN]

SearchDirs == {INCLUDE_DIR, LIB, REL_INCLUDE}

SeqsUpTo(S, n) == UNION { [1..k -> S] : k \in 0..n }

IncludingPaths == {SRC_A_CC, SRC, INCLUDE_B_H}

\* no call of resolve is in progress
ResolveIdle ==
    /\ r_include = [include |-> <<>>, maybe_relative |-> FALSE]
    /\ r_include_paths = <<>>
    /\ r_relative_to = <<>>
    /\ r_result = nullopt
    /\ r_pc = "idle"

CallResolve ==
    /\ r_pc = "idle"
    /\ \E inc \in Includes, paths \in SeqsUpTo(SearchDirs, MaxPaths),
          rel \in IncludingPaths :
          /\ r_include' = inc
          /\ r_include_paths' = paths
          /\ r_relative_to' = rel
          /\ r_result' = resolve(files, cwd, inc, paths, rel)
    /\ r_pc' = "done"
    /\ UNCHANGED <<files, cwd, scanVars, callVars, envVars, chainVars, indexVars, bootVars>>

vars ==
    <<files, cwd, resolveVars, indexVars, bootVars, scanVars, callVars, envVars,
      chainVars>>

-----------------------------------------------------------------------------
(* make::includes: the per-line scanner *)

\* std::string_view::npos
npos == -1

Blanks == {" ", "\t"}

\* string_view::find_first_not_of(" \t"), a position counted from 0
find_first_not_of_blank(l) ==
    IF \E k \in 1..Len(l) : l[k] \notin Blanks
    THEN (CHOOSE k \in 1..Len(l) :
             l[k] \notin Blanks /\ \A j \in 1..(k-1) : l[j] \in Blanks) - 1
    ELSE npos

\* the last occurrence instead of the first
find_Last(l, ch) ==
    IF \E k \in 1..Len(l) : l[k] = ch
    THEN (CHOOSE k \in 1..Len(l) : l[k] = ch /\ \A j \in (k+1)..Len(l) : l[j] # ch) - 1
    ELSE npos

\* string_view::find(ch), a position counted from 0
find(l, ch) ==
    IF \E k \in 1..Len(l) : l[k] = ch
    THEN (CHOOSE k \in 1..Len(l) : l[k] = ch /\ \A j \in 1..(k-1) : l[j] # ch) - 1
    ELSE npos

\* string_view::remove_prefix(n)
remove_prefix(l, n) == SubSeq(l, n + 1, Len(l))

\* string_view::starts_with
starts_with(l, prefix) ==
    Len(l) >= Len(prefix) /\ SubSeq(l, 1, Len(prefix)) = prefix

\* string_view::substr(0, n)
substr0(l, n) == SubSeq(l, 1, n)

INCLUDE_KW == <<"i", "n", "c", "l", "u", "d", "e">>

\* what one pass through the switch does: the new state and rest of the
\* line, the Include emplaced (if any), and whether it went to next_line
ScanGoto(state, l) == [state |-> state, l |-> l, emit |-> {}, next_line |-> TRUE]

ScanBreak(state, l) == [state |-> state, l |-> l, emit |-> {}, next_line |-> FALSE]

\* a closing state that takes the rest of the line when the delimiter is missing
ScanClose_Unclosed(state, l, ch, relative) ==
    [ScanGoto(state, l) EXCEPT !.emit =
        {[include |-> IF find(l, ch) # npos THEN substr0(l, find(l, ch)) ELSE l,
          maybe_relative |-> relative]}]

\* a closing state that drops one character and looks again when the
\* delimiter is missing
ScanClose_Rescan(state, l, ch, relative) ==
    IF find(l, ch) # npos
    THEN [ScanGoto(state, l) EXCEPT !.emit =
             {[include |-> substr0(l, find(l, ch)), maybe_relative |-> relative]}]
    ELSE ScanBreak(state, remove_prefix(l, 1))

\* the two closing cases: emplace up to the delimiter if there is one,
\* then goto next_line
ScanClose(state, l, ch, relative) ==
    [ScanGoto(state, l) EXCEPT !.emit =
        IF find(l, ch) # npos
        THEN {[include |-> substr0(l, find(l, ch)), maybe_relative |-> relative]}
        ELSE {}]

ScanStep(state, l) ==
    LET i == find_first_not_of_blank(l) IN
    CASE state = "Waits_For_Hash" ->
           IF i # npos /\ l[i + 1] = "#"
           THEN ScanBreak("Waits_For_Include", remove_prefix(l, i + 1))
           ELSE ScanGoto(state, l)
      [] state = "Waits_For_Include" ->
           IF i # npos /\ starts_with(remove_prefix(l, i), INCLUDE_KW)
           THEN ScanBreak("Waits_For_Opening", remove_prefix(l, i + Len(INCLUDE_KW)))
           ELSE ScanGoto(state, l)
      [] state = "Waits_For_Opening" ->
           IF i # npos /\ starts_with(remove_prefix(l, i), <<"<">>)
           THEN ScanBreak("Waits_For_Closing_Greater_Then", remove_prefix(l, i + 1))
           ELSE IF i # npos /\ starts_with(remove_prefix(l, i), <<"\"">>)
           THEN ScanBreak("Waits_For_Closing_Quote", remove_prefix(l, i + 1))
           ELSE ScanGoto(state, IF i # npos THEN remove_prefix(l, i) ELSE l)
      [] state = "Waits_For_Closing_Quote" -> ScanClose(state, l, "\"", TRUE)
      [] state = "Waits_For_Closing_Greater_Then" -> ScanClose(state, l, ">", FALSE)

\* the inner for loop over one line, from `state` with `l` left to read
RECURSIVE ScanLine(_, _)
ScanLine(state, l) ==
    IF l = <<>> THEN {}
    ELSE LET s == ScanStep(state, l) IN
         IF s.next_line THEN s.emit ELSE ScanLine(s.state, s.l)

\* the outer loop over the lines of a file
RECURSIVE ScanLines(_)
ScanLines(lines) ==
    IF lines = <<>> THEN {}
    ELSE ScanLine("Waits_For_Hash", Head(lines)) \cup ScanLines(Tail(lines))

\* lines of the modelled files
LINE_QUOTED == <<"#">> \o INCLUDE_KW \o <<" ", "\"">> \o B_H \o <<"\"">>
LINE_ANGLE == <<" ", "#", " ">> \o INCLUDE_KW \o <<"<", "v", ">", " ">>
LINE_CODE == <<"i", "n", "t", " ", "x", ";">>

\* the text of a regular file, line by line
FileLines(path) ==
    IF path = SRC_A_CC THEN <<LINE_QUOTED, LINE_CODE, LINE_ANGLE>>
    ELSE IF path = SRC_NOTES THEN <<LINE_QUOTED>>
    ELSE IF path = SRC_B_H THEN <<LINE_CODE>>
    ELSE IF path = LIB_B_H THEN <<LINE_ANGLE, LINE_ANGLE>>
    ELSE <<>>

\* make::includes(path): an ifstream of a path that cannot be opened reads nothing
includes(fs, wd, path) ==
    IF is_regular_file(fs, wd, path) THEN ScanLines(FileLines(Lookup(fs, wd, path)))
    ELSE {}

-----------------------------------------------------------------------------
(* make::includes: the loops over lines and characters, step by step *)

ScanStates ==
    { "Waits_For_Hash", "Waits_For_Include", "Waits_For_Opening",
      "Waits_For_Closing_Greater_Then", "Waits_For_Closing_Quote" }

\* a scanner whose state outlives the line
LineResetState_Carry(previous) == previous

\* the value `state` has when a line begins: its initializer, and the
\* assignment at the label next_line
LineResetState(previous) == "Waits_For_Hash"

Q == <<"\"">>

\* lines with every part right or wrong: blanks, hash, blanks, keyword,
\* blanks, opening delimiter, target, closing delimiter, rest
RichLines ==
    LET LinePre == {<<>>, <<" ">>, <<"\t", " ">>}
        LineHash == {<<"#">>, <<>>, <<"x">>}
        LineGap == {<<>>, <<" ", "\t">>}
        LineKeyword == {INCLUDE_KW, <<"i", "n", "c", "l", "u", "d">>, <<"d", "e", "f">>}
        LineOpen == {<<"<">>, Q, <<"x">>, <<>>}
        LineTarget ==
            { <<>>, <<"v">>, <<"a", " ", "b">>, <<"a", "/", "b", ".", "h">>,
              <<"a">> \o Q \o <<"b">>, <<"a", ">", "b">> }
        LineClose == {<<">">>, Q, <<>>}
        LineTail == {<<>>, <<" ">>, <<" ", ">">>, Q}
    IN  { pre \o hash \o gap1 \o kw \o gap2 \o open \o target \o close \o tail :
            pre \in LinePre, hash \in LineHash, gap1 \in LineGap,
            kw \in LineKeyword, gap2 \in LineGap, open \in LineOpen,
            target \in LineTarget, close \in LineClose, tail \in LineTail }

\* lines of the files with more than one line
ShortLines ==
    { <<"#">> \o INCLUDE_KW \o <<" ">> \o Q,
      B_H \o Q,
      <<"#">> \o INCLUDE_KW \o <<" ", "<">>,
      <<"v", ">">>,
      <<"#">>,
      <<"#", " ">> \o INCLUDE_KW,
      <<"#">> \o INCLUDE_KW \o <<" ">> \o Q \o <<"v">>,
      LINE_QUOTED, LINE_ANGLE, LINE_CODE, <<>> }

ScanFiles == { <<line>> : line \in RichLines } \cup SeqsUpTo(ShortLines, MaxLines)

\* no call of includes is in progress
ScanIdle ==
    /\ s_file = <<>>
    /\ s_rest = <<>>
    /\ s_line = <<>>
    /\ s_l = <<>>
    /\ s_state = "Waits_For_Hash"
    /\ s_includes = {}
    /\ s_pc = "idle"
    /\ s_visited = <<>>
    /\ s_line_out = {}
    /\ s_emits = 0

\* includes has opened a file and is at the condition of the outer for
ScanStart ==
    /\ s_file \in ScanFiles
    /\ s_rest = s_file
    /\ s_line = <<>>
    /\ s_l = <<>>
    /\ s_state = "Waits_For_Hash"
    /\ s_includes = {}
    /\ s_pc = "getline"
    /\ s_visited = <<>>
    /\ s_line_out = {}
    /\ s_emits = 0

\* the outer for: std::getline delivers a line, `state` and `l` are
\* initialized; or the file is at its end and includes returns
Scan_GetLine ==
    /\ s_pc = "getline"
    /\ IF s_rest = <<>>
       THEN /\ s_pc' = "done"
            /\ UNCHANGED <<s_rest, s_line, s_l, s_state, s_visited, s_line_out, s_emits>>
       ELSE /\ s_line' = Head(s_rest)
            /\ s_rest' = Tail(s_rest)
            /\ s_l' = Head(s_rest)
            /\ s_state' = LineResetState(s_state)
            /\ s_visited' = <<>>
            /\ s_line_out' = {}
            /\ s_emits' = 0
            /\ s_pc' = "scan"
    /\ UNCHANGED <<files, cwd, resolveVars, indexVars, bootVars, callVars, envVars,
                   chainVars, s_file, s_includes>>

\* one pass of the inner for with something left to read: the switch
Scan_Switch ==
    /\ s_pc = "scan"
    /\ s_l # <<>>
    /\ LET step == ScanStep(s_state, s_l) IN
          /\ s_visited' = Append(s_visited, s_state)
          /\ s_includes' = s_includes \cup step.emit
          /\ s_line_out' = s_line_out \cup step.emit
          /\ s_emits' = s_emits + Cardinality(step.emit)
          /\ s_state' = step.state
          /\ s_l' = step.l
          /\ s_pc' = IF step.next_line THEN "next_line" ELSE "scan"
    /\ UNCHANGED <<files, cwd, resolveVars, indexVars, bootVars, callVars, envVars,
                   chainVars, s_file, s_rest, s_line>>

\* the inner for ends because nothing is left to read
Scan_LineRead ==
    /\ s_pc = "scan"
    /\ s_l = <<>>
    /\ s_pc' = "next_line"
    /\ UNCHANGED <<files, cwd, resolveVars, indexVars, bootVars, callVars, envVars,
                   chainVars, s_file, s_rest, s_line, s_l, s_state, s_includes,
                   s_visited, s_line_out, s_emits>>

\* the label next_line: state = Waits_For_Hash, and on to the next line
Scan_NextLine ==
    /\ s_pc = "next_line"
    /\ s_state' = LineResetState(s_state)
    /\ s_pc' = "getline"
    /\ UNCHANGED <<files, cwd, resolveVars, indexVars, bootVars, callVars, envVars,
                   chainVars, s_file, s_rest, s_line, s_l, s_includes, s_visited,
                   s_line_out, s_emits>>

-----------------------------------------------------------------------------
(* make::includes_in_directory *)

\* make::extensions
extensions_cpp_implementation ==
    << <<".", "c", "c">>, <<".", "c", "p", "p">>, <<".", "c", "x", "x">> >>
extensions_cpp_header ==
    << <<".", "h">>, <<".", "h", "h">>, <<".", "h", "p", "p">>, <<".", "h", "x", "x">> >>
extensions_cpp == extensions_cpp_implementation \o extensions_cpp_header
extensions_c == << <<".", "c">>, <<".", "h">> >>
extensions_c_header == << <<".", "h">> >>
extensions_c_implementation == << <<".", "c">> >>

ExtensionLists ==
    { extensions_cpp_implementation, extensions_cpp_header, extensions_cpp,
      extensions_c, extensions_c_header, extensions_c_implementation }

\* path::filename
filename(p) == LET names == Split(p) IN names[Len(names)]

\* path::extension: from the rightmost period of the file name, unless the
\* name is "." or "..", has no period, or only starts with one
extension(p) ==
    LET f == filename(p)
        dots == {k \in 1..Len(f) : f[k] = "."}
        last == CHOOSE k \in dots : \A j \in dots : j <= k
    IN IF dots = {} \/ f = <<".">> \/ f = <<".", ".">> THEN <<>>
       ELSE IF last = 1 THEN <<>>
       ELSE SubSeq(f, last, Len(f))

\* the null pointer
nullptr == [array |-> <<>>, index |-> 0]

\* std::ranges::find over a built-in array: a pointer to the first element
\* equal to value, or the past-the-end pointer
ranges_find(array, value) ==
    LET hits == {k \in 1..Len(array) : array[k] = value} IN
    [array |-> array,
     index |-> IF hits = {} THEN Len(array) + 1
               ELSE CHOOSE k \in hits : \A j \in hits : k <= j]

\* the past-the-end pointer of an array
ranges_end(array) == [array |-> array, index |-> Len(array) + 1]

\* contextual conversion of a pointer to bool
PointerToBool(ptr) == ptr # nullptr

\* the condition of the if in the loop body
ShouldScan(fs, wd, path, extensions) ==
    /\ is_regular_file(fs, wd, path)
    /\ PointerToBool(ranges_find(extensions, extension(path)))

\* canonical path c lies below canonical directory d
IsBelow(c, d) ==
    /\ c # d
    /\ IF d = SLASH THEN TRUE
       ELSE Len(c) > Len(d) + 1 /\ SubSeq(c, 1, Len(d) + 1) = d \o SLASH

\* what recursive_directory_iterator(search_path) yields: for every entry
\* below the directory, search_path followed by the entry's relative path
DirectoryEntries(fs, wd, search_path) ==
    LET d == Lookup(fs, wd, search_path) IN
    { PathAppend(search_path,
                 SubSeq(n, (IF d = SLASH THEN 1 ELSE Len(d) + 1) + 1, Len(n))) :
        n \in {n \in Dirs \cup fs : IsBelow(n, d)} }

SearchRoots == {PROJ, SRC, <<"s", "r", "c">>, <<".">>}

\* no call of includes_in_directory is in progress
IndexIdle ==
    /\ i_search_path = <<>>
    /\ i_extensions = <<>>
    /\ i_pending = {}
    /\ includes_per_file = <<>>
    /\ i_pc = "idle"

\* the call, up to the construction of the directory iterator
IndexBegin ==
    /\ i_pc = "idle"
    /\ \E root \in SearchRoots, exts \in ExtensionLists :
          /\ Lookup(files, cwd, root) \in Dirs
          /\ i_search_path' = root
          /\ i_extensions' = exts
          /\ i_pending' = DirectoryEntries(files, cwd, root)
    /\ includes_per_file' = <<>>
    /\ i_pc' = "loop"
    /\ UNCHANGED <<files, cwd, scanVars, callVars, envVars, chainVars, resolveVars, bootVars>>

\* std::map::emplace: an existing key keeps its value
emplace(map, key, value) ==
    IF key \in DOMAIN map THEN map
    ELSE [k \in DOMAIN map \cup {key} |-> IF k = key THEN value ELSE map[k]]

\* one iteration of the for loop, on an entry in the iterator's order
IndexVisit ==
    /\ i_pc = "loop"
    /\ \E path \in i_pending :
          /\ i_pending' = i_pending \ {path}
          /\ includes_per_file' =
                IF ShouldScan(files, cwd, path, i_extensions)
                THEN emplace(includes_per_file, canonical(files, cwd, path),
                             includes(files, cwd, path))
                ELSE includes_per_file
    /\ UNCHANGED <<files, cwd, scanVars, callVars, envVars, chainVars, resolveVars, bootVars, i_search_path, i_extensions, i_pc>>

\* the iterator is exhausted: return includes_per_file
IndexReturn ==
    /\ i_pc = "loop"
    /\ i_pending = {}
    /\ i_pc' = "done"
    /\ UNCHANGED <<files, cwd, scanVars, callVars, envVars, chainVars, resolveVars, bootVars, i_search_path, i_extensions,
                   i_pending, includes_per_file>>

-----------------------------------------------------------------------------
(* make::Status, wait statuses *)

\* the signal std::abort raises
SIGABRT == 6

\* the wait status of a process that called exit(code)
W_EXITCODE(code) == (code % 256) * 256

\* the wait status of a process killed by signal sig
W_TERMSIG(sig, core) == sig + (IF core THEN 128 ELSE 0)

\* the wait status of a traced process stopped by signal sig
W_STOPCODE(sig) == sig * 256 + 127

WIFEXITED(wstatus) == wstatus % 128 = 0

WEXITSTATUS(wstatus) == (wstatus \div 256) % 256

WIFSIGNALED(wstatus) == wstatus % 128 # 0 /\ wstatus % 128 # 127

WTERMSIG(wstatus) == wstatus % 128

\* Status: the union member exit_code also holds the signal
Status(kind, exit_code_or_signal) == [kind |-> kind, exit_code |-> exit_code_or_signal]

\* Status {}: kind = EXIT; no cmd_run has returned yet
NoStatus == [kind |-> "NONE", exit_code |-> 0]

\* a conversion that looks at the kind only
Status_bool_AnyExit(st) == st.kind = "EXIT"

\* Status::operator bool
Status_bool(st) == st.kind = "EXIT" /\ st.exit_code = 0

\* a normalization that forgets the 128 of a signal
normalize_to_exit_code_Raw(st) == st.exit_code

\* a killed child reported as the negated signal number
normalize_to_exit_code_Minus(st) ==
    CASE st.kind = "EXIT" -> st.exit_code
      [] st.kind = "SIGNAL" -> 0 - st.exit_code

\* Status::normalize_to_exit_code
normalize_to_exit_code(st) ==
    CASE st.kind = "EXIT" -> st.exit_code
      [] st.kind = "SIGNAL" -> 128 + st.exit_code

\* a panic that ends the process with exit(1)
panic_wstatus_Exit(core) == W_EXITCODE(1)

\* make::panic: the wait status of a process that panicked (std::abort)
panic_wstatus(core) == W_TERMSIG(SIGABRT, core)

\* the exit code a parent sees of a process that called exit(code)
exit_status(code) == code % 256

-----------------------------------------------------------------------------
(* make::cmd_parse, make::cmd_render, make::or_default, make::flags_from_env *)

\* the arguments cmd_parse has collected after reading command[0..i-1]:
\* fields args, start and previous as in the code, asserted when a quote
\* character was met
RECURSIVE cmd_parse_loop(_, _)
cmd_parse_loop(command, i) ==
    IF i = 0 THEN [args |-> <<>>, start |-> 0, previous |-> "", asserted |-> FALSE]
    ELSE LET before == cmd_parse_loop(command, i - 1)
             ch == command[i]
             at == i - 1
         IN CASE ch \in {"'", "\""} ->
                   [before EXCEPT !.asserted = TRUE, !.previous = ch]
              [] ch = " " ->
                   [before EXCEPT
                      !.args = IF before.previous # " " /\ at # 0
                               THEN Append(before.args,
                                           SubSeq(command, before.start + 1, at))
                               ELSE before.args,
                      !.start = at + 1,
                      !.previous = ch]
              [] OTHER -> [before EXCEPT !.previous = ch]

\* make::cmd_parse; the assert(false) on a quote character aborts
cmd_parse(command) ==
    LET done == cmd_parse_loop(command, Len(command)) IN
    [asserted |-> done.asserted,
     args |-> IF done.start < Len(command) /\ command[done.start + 1] # " "
              THEN Append(done.args, SubSeq(command, done.start + 1, Len(command)))
              ELSE done.args]

\* an environment variable that is not set
unset == <<"unset">>

\* make::flags_from_env, of the value getenv returned
flags_from_env(env) ==
    IF env # unset THEN cmd_parse(env) ELSE [asserted |-> FALSE, args |-> <<>>]

\* make::or_default
or_default(vector, default) == IF vector = <<>> THEN <<default>> ELSE vector

\* one argument as cmd_render writes it; asserted for an argument with a
\* single quote and neither space nor double quote
render_arg(arg) ==
    LET has(ch) == \E k \in 1..Len(arg) : arg[k] = ch IN
    IF has(" ") \/ has("\"") THEN [asserted |-> FALSE, text |-> <<"'">> \o arg \o <<"'">>]
    ELSE IF has("'") THEN [asserted |-> TRUE, text |-> <<>>]
    ELSE [asserted |-> FALSE, text |-> arg]

\* make::cmd_render
RECURSIVE cmd_render(_)
cmd_render(args) ==
    IF args = <<>> THEN [asserted |-> FALSE, text |-> <<>>]
    ELSE LET n == Len(args)
             before == cmd_render(SubSeq(args, 1, n - 1))
             last == render_arg(args[n])
         IN [asserted |-> before.asserted \/ last.asserted,
             text |-> before.text \o (IF n > 1 THEN <<" ">> ELSE <<>>) \o last.text]

\* the characters of the modelled environment values
EnvAlphabet == {" ", "\t", "a", "-", "'"}

\* what getenv can return: nothing, or a string
EnvStrings == {unset} \cup SeqsUpTo(EnvAlphabet, MaxEnvLen)

\* main is about to evaluate or_default(flags_from_env("CXX"), compiler::gcc)
EnvStart ==
    /\ e_value \in EnvStrings
    /\ e_args = <<>>
    /\ e_cxx = <<>>
    /\ e_pc = "call"

\* flags_from_env: getenv, and cmd_parse of what it returned
Env_FlagsFromEnv ==
    /\ e_pc = "call"
    /\ LET parsed == flags_from_env(e_value) IN
          IF parsed.asserted
          THEN e_pc' = "aborted" /\ UNCHANGED e_args
          ELSE e_pc' = "parsed" /\ e_args' = parsed.args
    /\ UNCHANGED <<files, cwd, resolveVars, indexVars, bootVars, scanVars, callVars,
                   chainVars, e_value, e_cxx>>

\* or_default of the returned vector and compiler::gcc
Env_OrDefault ==
    /\ e_pc = "parsed"
    /\ e_cxx' = or_default(e_args, <<"g", "+", "+">>)
    /\ e_pc' = "done"
    /\ UNCHANGED <<files, cwd, resolveVars, indexVars, bootVars, scanVars, callVars,
                   chainVars, e_value, e_args>>

-----------------------------------------------------------------------------
(* make::cmd_run, make::pid_wait, make::Cmd::run_and_check *)

\* the forked process: where it is, whether execvp worked, how it ended,
\* the wait status the kernel holds for it, whether its stop was reported
NoChild ==
    [state |-> "none", launch |-> "none", cause |-> <<"none", 0>>, wstatus |-> 0,
     reported |-> FALSE]

\* the process id fork returns to the calling process
ChildPid == 1

\* exit codes and signals of the modelled children
ExitCodes == {0, 1, 255}

TermSignals == {SIGABRT, 9, 64}

StopSignals == {19}

\* the calling process ends in std::abort (panic, a failed assert, an
\* exception nobody catches)
Abort ==
    /\ pc' = "aborted"
    /\ trace' = Append(trace, "abort")

\* cmd_run without the test of argv.empty()
CR_Entry_NoCheck ==
    /\ pc = "cr_entry"
    /\ IF cmd_render(argv).asserted
       THEN Abort /\ UNCHANGED cout
       ELSE /\ cout' = Append(cout, <<"[", "C", "M", "D", "]", " ">> \o cmd_render(argv).text)
            /\ trace' = Append(trace, "cmd_" \o caller)
            /\ pc' = "cr_fork"
    /\ UNCHANGED <<files, cwd, scanVars, callVars, envVars, chainVars, resolveVars,
                   indexVars, fileTimes, runVars, compile_result, exit_code>>

\* cmd_run up to fork: the precondition and the "[CMD]" line
CR_Entry ==
    /\ pc = "cr_entry"
    /\ IF argv = <<>> \/ cmd_render(argv).asserted
       THEN Abort /\ UNCHANGED cout
       ELSE /\ cout' = Append(cout, <<"[", "C", "M", "D", "]", " ">> \o cmd_render(argv).text)
            /\ trace' = Append(trace, "cmd_" \o caller)
            /\ pc' = "cr_fork"
    /\ UNCHANGED <<files, cwd, scanVars, callVars, envVars, chainVars, resolveVars, indexVars, fileTimes, runVars,
                   compile_result, exit_code>>

\* fork, as the calling process sees it
CR_Fork ==
    /\ pc = "cr_fork"
    /\ \/ /\ child_pid' = -1
          /\ child' = NoChild
          /\ Abort
       \/ /\ child_pid' = ChildPid
          /\ child' = [NoChild EXCEPT !.state = "forked", !.launch = "pending"]
          /\ pc' = "pid_wait"
          /\ UNCHANGED trace
    /\ stops' = 0
    /\ UNCHANGED <<files, cwd, scanVars, callVars, envVars, chainVars, resolveVars, indexVars, fileTimes, argv, caller,
                   status, compile_result, exit_code, cout>>

\* a child branch without the panic: when execvp fails the forked process
\* leaves the if and goes on in the code of the caller
Child_Exec_Returns ==
    /\ child.state = "forked"
    /\ \/ child' = [child EXCEPT !.state = "running", !.launch = "ok"]
       \/ child' = [child EXCEPT !.state = "returned", !.launch = "failed"]
    /\ UNCHANGED <<files, cwd, scanVars, callVars, envVars, chainVars, resolveVars,
                   indexVars, pc, trace, fileTimes, argv, caller, child_pid, stops,
                   status, compile_result, exit_code, cout>>

\* the forked process: execvp, and panic when it returns
Child_Exec ==
    /\ child.state = "forked"
    /\ \/ child' = [child EXCEPT !.state = "running", !.launch = "ok"]
       \/ \E core \in BOOLEAN :
             child' = [child EXCEPT !.state = "zombie", !.launch = "failed",
                                    !.cause = <<"panic", 0>>,
                                    !.wstatus = panic_wstatus(core)]
    /\ UNCHANGED <<files, cwd, scanVars, callVars, envVars, chainVars, resolveVars, indexVars, pc, trace, fileTimes, argv,
                   caller, child_pid, stops, status, compile_result, exit_code, cout>>

\* the launched program ends: it exits or a signal kills it; a compiler
\* that exits with 0 has written program_path
Child_Terminate ==
    /\ child.state = "running"
    /\ \/ \E code \in ExitCodes :
             /\ child' = [child EXCEPT !.state = "zombie", !.cause = <<"exit", code>>,
                                       !.wstatus = W_EXITCODE(code)]
             /\ IF caller = "compile" /\ code = 0
                THEN program_mtime' \in program_mtime..MaxTime
                ELSE UNCHANGED program_mtime
       \/ \E sig \in TermSignals, core \in BOOLEAN :
             /\ child' = [child EXCEPT !.state = "zombie", !.cause = <<"signal", sig>>,
                                       !.wstatus = W_TERMSIG(sig, core)]
             /\ UNCHANGED program_mtime
    /\ UNCHANGED <<files, cwd, scanVars, callVars, envVars, chainVars, resolveVars, indexVars, pc, trace, start_mtime,
                   source_mtime, old_program, argv, caller, child_pid, stops, status,
                   compile_result, exit_code, cout>>

\* a traced child is stopped by a signal
Child_Stop ==
    /\ child.state = "running"
    /\ stops < MaxStops
    /\ \E sig \in StopSignals :
          child' = [child EXCEPT !.state = "stopped", !.wstatus = W_STOPCODE(sig),
                                 !.reported = FALSE]
    /\ stops' = stops + 1
    /\ UNCHANGED <<files, cwd, scanVars, callVars, envVars, chainVars, resolveVars, indexVars, pc, trace, fileTimes, argv,
                   caller, child_pid, status, compile_result, exit_code, cout>>

\* a stopped child is continued
Child_Continue ==
    /\ child.state = "stopped"
    /\ child' = [child EXCEPT !.state = "running"]
    /\ UNCHANGED <<files, cwd, scanVars, callVars, envVars, chainVars, resolveVars, indexVars, pc, trace, fileTimes, argv,
                   caller, child_pid, stops, status, compile_result, exit_code, cout>>

\* a pid_wait that returns after the first waitpid, whatever it reported
pid_wait_returns_Always(wstatus) == TRUE

\* pid_wait: whether the loop returns for this wait status
pid_wait_returns(wstatus) == WIFEXITED(wstatus) \/ WIFSIGNALED(wstatus)

\* pid_wait: the Status it returns for this wait status
pid_wait_status(wstatus) ==
    IF WIFEXITED(wstatus) THEN Status("EXIT", WEXITSTATUS(wstatus))
    ELSE Status("SIGNAL", WTERMSIG(wstatus))

\* one turn of the loop of pid_wait: waitpid fails, or reports that the
\* child ended, or reports a stop and the loop goes round
PidWait ==
    /\ pc = "pid_wait"
    /\ \/ /\ Abort
          /\ UNCHANGED <<child, status>>
       \/ /\ \/ child.state = "zombie" /\ child' = [child EXCEPT !.state = "reaped"]
             \/ /\ child.state = "stopped"
                /\ ~child.reported
                /\ child' = [child EXCEPT !.reported = TRUE]
          /\ IF pid_wait_returns(child.wstatus)
             THEN status' = pid_wait_status(child.wstatus) /\ pc' = "cr_return"
             ELSE UNCHANGED <<status, pc>>
          /\ UNCHANGED trace
    /\ UNCHANGED <<files, cwd, scanVars, callVars, envVars, chainVars, resolveVars, indexVars, fileTimes, argv, caller,
                   child_pid, stops, compile_result, exit_code, cout>>

\* run_and_check after cmd_run returned: panic unless the result is a success
RunAndCheck ==
    /\ pc = "cr_return"
    /\ caller \in {"compile", "downstream"}
    /\ compile_result' = IF caller = "compile" THEN status ELSE compile_result
    /\ IF ~Status_bool(status) THEN Abort
       ELSE /\ pc' = IF caller = "compile" THEN "rs_reexec" ELSE "main_return"
            /\ UNCHANGED trace
    /\ UNCHANGED <<files, cwd, scanVars, callVars, envVars, chainVars, resolveVars, indexVars, fileTimes, runVars,
                   exit_code, cout>>

\* a program that calls cmd_run itself and looks at the Status it gets:
\* the conversion to bool and normalize_to_exit_code
CR_Return ==
    /\ pc = "cr_return"
    /\ caller = "direct"
    /\ run_success' = Status_bool(status)
    /\ run_exit_code' = normalize_to_exit_code(status)
    /\ pc' = "returned"
    /\ UNCHANGED <<files, cwd, scanVars, envVars, chainVars, resolveVars, indexVars,
                   trace, fileTimes, runVars, compile_result, exit_code, cout>>

-----------------------------------------------------------------------------
(* make::rebuild_self, main *)

\* the names of the files and programs involved
PROGRAM_PATH == <<".", "/", "m", "a", "k", "e">>
SOURCE_PATH == <<"m", "a", "k", "e", ".", "c", "c">>
GCC == <<"g", "+", "+">>
CLANG == <<"c", "l", "a", "n", "g", "+", "+">>
STD_CXX20 == <<"-", "s", "t", "d", "=", "c", "+", "+", "2", "0">>
DASH_O == <<"-", "o">>
ECHO == <<"e", "c", "h", "o">>
WALL == <<"-", "W", "a", "l", "l">>
WEXTRA == <<"-", "W", "e", "x", "t", "r", "a">>
MAIN == <<"m", "a", "i", "n">>
MAIN_CC == <<"m", "a", "i", "n", ".", "c", "c">>

\* compiler::current(), by the compiler the program was built with
Compilers == {GCC, CLANG}

\* values of the environment variables CXX and CXXFLAGS
EnvValues == {unset, <<>>, <<"c", "c">>, <<" ", "c", "c", " ", " ", "-", "g">>, <<"'">>}

\* a binary older than its source is stale
IsStale_OrEqual(program_time, source_time) == ~(program_time > source_time)

\* the test of rebuild_self: last_write_time(program) >= last_write_time(source)
\* means there is nothing to do
IsStale(program_time, source_time) == ~(program_time >= source_time)

\* main, up to the call of rebuild_self
Main_Start ==
    /\ pc = "main"
    /\ pc' = "rs_check"
    /\ UNCHANGED <<files, cwd, scanVars, callVars, envVars, chainVars, resolveVars, indexVars, trace, fileTimes, runVars,
                   compile_result, exit_code, cout>>

\* rebuild_self: the two last_write_time calls (either may throw) and the test
RS_Check ==
    /\ pc = "rs_check"
    /\ \/ Abort
       \/ /\ ~IsStale(program_mtime, source_mtime)
          /\ trace' = Append(trace, "return")
          /\ pc' = "main_flags"
       \/ /\ IsStale(program_mtime, source_mtime)
          /\ pc' = "rs_backup"
          /\ UNCHANGED trace
    /\ UNCHANGED <<files, cwd, scanVars, callVars, envVars, chainVars, resolveVars, indexVars, fileTimes, runVars,
                   compile_result, exit_code, cout>>

\* rebuild_self: copy_file(program_path, program_path + ".old", overwrite_existing),
\* which may throw
RS_Backup ==
    /\ pc = "rs_backup"
    /\ \/ /\ Abort
          /\ UNCHANGED old_program
       \/ /\ old_program' = [of |-> "program", mtime |-> program_mtime]
          /\ trace' = Append(trace, "backup")
          /\ pc' = "rs_compile"
    /\ UNCHANGED <<files, cwd, scanVars, callVars, envVars, chainVars, resolveVars, indexVars, program_mtime, start_mtime,
                   source_mtime, runVars, compile_result, exit_code, cout>>

\* rebuild_self: compile.run_and_check(), up to the call of cmd_run
RS_Compile ==
    /\ pc = "rs_compile"
    /\ \E compiler \in Compilers :
          argv' = <<compiler, STD_CXX20, DASH_O, PROGRAM_PATH, SOURCE_PATH>>
    /\ caller' = "compile"
    /\ pc' = "cr_entry"
    /\ UNCHANGED <<files, cwd, scanVars, callVars, envVars, chainVars, resolveVars, indexVars, trace, fileTimes, child_pid,
                   child, stops, status, compile_result, exit_code, cout>>

\* rebuild_self: Cmd run{program_path}, up to the call of cmd_run
RS_Reexec ==
    /\ pc = "rs_reexec"
    /\ argv' = <<PROGRAM_PATH>>
    /\ caller' = "reexec"
    /\ pc' = "cr_entry"
    /\ UNCHANGED <<files, cwd, scanVars, callVars, envVars, chainVars, resolveVars, indexVars, trace, fileTimes, child_pid,
                   child, stops, status, compile_result, exit_code, cout>>

\* a rebuild_self that returns to main after the re-execution
RS_Exit_Returns ==
    /\ pc = "cr_return"
    /\ caller = "reexec"
    /\ trace' = Append(trace, "return")
    /\ pc' = "main_flags"
    /\ UNCHANGED <<files, cwd, scanVars, callVars, envVars, chainVars, resolveVars, indexVars, fileTimes, runVars,
                   compile_result, exit_code, cout>>

\* rebuild_self: ::exit(status.normalize_to_exit_code())
RS_Exit ==
    /\ pc = "cr_return"
    /\ caller = "reexec"
    /\ exit_code' = exit_status(normalize_to_exit_code(status))
    /\ trace' = Append(trace, "exit")
    /\ pc' = "exited"
    /\ UNCHANGED <<files, cwd, scanVars, callVars, envVars, chainVars, resolveVars, indexVars, fileTimes, runVars,
                   compile_result, cout>>

\* main after rebuild_self returned: the flags from the environment and the
\* downstream command, up to the call of cmd_run
Main_Flags ==
    /\ pc = "main_flags"
    /\ \E env_cxx \in EnvValues, env_cxxflags \in EnvValues :
          LET cxx_flags == flags_from_env(env_cxx)
              cxx == or_default(cxx_flags.args, GCC)
              more == flags_from_env(env_cxxflags)
              cxxflags == <<WALL, WEXTRA>> \o more.args
          IN IF cxx_flags.asserted \/ more.asserted
             THEN Abort /\ UNCHANGED <<argv, caller>>
             ELSE /\ argv' = <<ECHO>> \o cxx \o cxxflags \o <<DASH_O, MAIN, MAIN_CC>>
                  /\ caller' = "downstream"
                  /\ pc' = "cr_entry"
                  /\ UNCHANGED trace
    /\ UNCHANGED <<files, cwd, scanVars, callVars, envVars, chainVars, resolveVars, indexVars, fileTimes, child_pid, child,
                   stops, status, compile_result, exit_code, cout>>

\* main returns: the process exits with 0
Main_Return ==
    /\ pc = "main_return"
    /\ exit_code' = exit_status(0)
    /\ trace' = Append(trace, "exit")
    /\ pc' = "exited"
    /\ UNCHANGED <<files, cwd, scanVars, callVars, envVars, chainVars, resolveVars, indexVars, fileTimes, runVars,
                   compile_result, cout>>

Times == 0..MaxTime

\* the file program_path + ".old" does not exist
NoFile == [of |-> "nothing", mtime |-> 0]

\* argument vectors handed to cmd_run: none, one word, two words, a word
\* with a blank, a word cmd_render cannot write
RunArgvs ==
    { <<>>, <<ECHO>>, <<GCC, MAIN_CC>>, <<ECHO, <<"a", " ", "b">> >>,
      <<ECHO, <<"a", "'", "b">> >> }

\* a program is about to call cmd_run(argv)
RunStart ==
    /\ pc = "cr_entry"
    /\ trace = <<>>
    /\ program_mtime = 0
    /\ start_mtime = 0
    /\ source_mtime = 0
    /\ old_program = NoFile
    /\ argv \in RunArgvs
    /\ caller = "direct"
    /\ child_pid = 0
    /\ child = NoChild
    /\ stops = 0
    /\ status = NoStatus
    /\ compile_result = NoStatus
    /\ exit_code = -1
    /\ cout = <<>>

\* no process of the bootstrap is running
BootIdle ==
    /\ pc = "idle"
    /\ trace = <<>>
    /\ program_mtime = 0
    /\ start_mtime = 0
    /\ source_mtime = 0
    /\ old_program = NoFile
    /\ argv = <<>>
    /\ caller = "none"
    /\ child_pid = 0
    /\ child = NoChild
    /\ stops = 0
    /\ status = NoStatus
    /\ compile_result = NoStatus
    /\ exit_code = -1
    /\ cout = <<>>

\* the program has just been started
BootStart ==
    /\ pc = "main"
    /\ trace = <<>>
    /\ program_mtime \in Times
    /\ start_mtime = program_mtime
    /\ source_mtime \in Times
    /\ old_program \in {NoFile} \cup {[of |-> "earlier program", mtime |-> t] : t \in Times}
    /\ argv = <<>>
    /\ caller = "none"
    /\ child_pid = 0
    /\ child = NoChild
    /\ stops = 0
    /\ status = NoStatus
    /\ compile_result = NoStatus
    /\ exit_code = -1
    /\ cout = <<>>

-----------------------------------------------------------------------------
(* the chain of instances: main, rebuild_self, the program it re-executes *)

\* an instance of the program: where it is, the Status its cmd_run of the
\* re-execution returned, and how it ended
Instance(at) == [pc |-> at, status |-> NoStatus, end |-> <<"none", 0>>]

\* the instance has ended like this
Ended(instance, how) == [instance EXCEPT !.pc = "ended", !.end = how]

\* ended in std::abort
Aborted(instance) == Ended(instance, <<"signal", SIGABRT>>)

\* what pid_wait returns for an instance that ended
EndStatus(end) ==
    pid_wait_status(IF end[1] = "exit" THEN W_EXITCODE(end[2])
                    ELSE W_TERMSIG(end[2], FALSE))

\* the Status values cmd_run can return for a program that was launched
Statuses ==
    { Status("EXIT", code) : code \in ExitCodes } \cup
    { Status("SIGNAL", sig) : sig \in TermSignals }

\* the user starts the program
ChainStart ==
    /\ procs = <<Instance("rs_check")>>
    /\ compiles = 0
    /\ reexecs = 0
    /\ pc = "idle"
    /\ trace = <<>>
    /\ program_mtime \in Times
    /\ start_mtime = program_mtime
    /\ source_mtime \in Times
    /\ old_program = NoFile
    /\ argv = <<>>
    /\ caller = "none"
    /\ child_pid = 0
    /\ child = NoChild
    /\ stops = 0
    /\ status = NoStatus
    /\ compile_result = NoStatus
    /\ exit_code = -1
    /\ cout = <<>>

\* rebuild_self in instance k: the two last_write_time calls (either may
\* throw) and the test
Chain_Check(k) ==
    /\ k \in DOMAIN procs
    /\ procs[k].pc = "rs_check"
    /\ \/ procs' = [procs EXCEPT ![k] = Aborted(@)]
       \/ /\ ~IsStale(program_mtime, source_mtime)
          /\ procs' = [procs EXCEPT ![k].pc = "main_flags"]
       \/ /\ IsStale(program_mtime, source_mtime)
          /\ procs' = [procs EXCEPT ![k].pc = "rs_backup"]
    /\ UNCHANGED <<files, cwd, resolveVars, indexVars, scanVars, callVars, envVars,
                   pc, trace, fileTimes, runVars, compile_result, exit_code, cout,
                   compiles, reexecs>>

\* rebuild_self in instance k: the copy to program_path + ".old"
Chain_Backup(k) ==
    /\ k \in DOMAIN procs
    /\ procs[k].pc = "rs_backup"
    /\ \/ /\ procs' = [procs EXCEPT ![k] = Aborted(@)]
          /\ UNCHANGED old_program
       \/ /\ procs' = [procs EXCEPT ![k].pc = "rs_compile"]
          /\ old_program' = [of |-> "program", mtime |-> program_mtime]
    /\ UNCHANGED <<files, cwd, resolveVars, indexVars, scanVars, callVars, envVars,
                   pc, trace, program_mtime, start_mtime, source_mtime, runVars,
                   compile_result, exit_code, cout, compiles, reexecs>>

\* rebuild_self in instance k: compile.run_and_check(). fork may fail; the
\* compiler ends with some Status; a compiler that succeeded has written
\* program_path, which is then not older than the source
Chain_Compile(k) ==
    /\ k \in DOMAIN procs
    /\ procs[k].pc = "rs_compile"
    /\ compiles' = compiles + 1
    /\ \/ /\ procs' = [procs EXCEPT ![k] = Aborted(@)]
          /\ UNCHANGED program_mtime
       \/ \E result \in Statuses :
             IF Status_bool(result)
             THEN /\ program_mtime' \in { t \in Times : t >= source_mtime }
                  /\ procs' = [procs EXCEPT ![k].pc = "rs_reexec"]
             ELSE /\ procs' = [procs EXCEPT ![k] = Aborted(@)]
                  /\ UNCHANGED program_mtime
    /\ UNCHANGED <<files, cwd, resolveVars, indexVars, scanVars, callVars, envVars,
                   pc, trace, start_mtime, source_mtime, old_program, runVars,
                   compile_result, exit_code, cout, reexecs>>

\* rebuild_self in instance k: cmd_run(run.argv) up to pid_wait. fork may
\* fail; execvp may fail, and the child is aborted; or the program starts
\* again, as a new instance
Chain_Reexec(k) ==
    /\ k \in DOMAIN procs
    /\ procs[k].pc = "rs_reexec"
    /\ reexecs' = reexecs + 1
    /\ \/ procs' = [procs EXCEPT ![k] = Aborted(@)]
       \/ procs' = [procs EXCEPT ![k].pc = "rs_exit",
                                 ![k].status = EndStatus(<<"signal", SIGABRT>>)]
       \/ /\ k = Len(procs)
          /\ Len(procs) < MaxDepth
          /\ procs' = Append([procs EXCEPT ![k].pc = "wait_reexec"], Instance("rs_check"))
    /\ UNCHANGED <<files, cwd, resolveVars, indexVars, scanVars, callVars, envVars,
                   pc, trace, fileTimes, runVars, compile_result, exit_code, cout,
                   compiles>>

\* pid_wait in instance k: waitpid fails, or the re-executed instance has
\* ended and its Status is returned
Chain_Wait(k) ==
    /\ k \in DOMAIN procs
    /\ procs[k].pc = "wait_reexec"
    /\ \/ procs' = [procs EXCEPT ![k] = Aborted(@)]
       \/ /\ procs[k + 1].pc = "ended"
          /\ procs' = [procs EXCEPT ![k].pc = "rs_exit",
                                    ![k].status = EndStatus(procs[k + 1].end)]
    /\ UNCHANGED <<files, cwd, resolveVars, indexVars, scanVars, callVars, envVars,
                   pc, trace, fileTimes, runVars, compile_result, exit_code, cout,
                   compiles, reexecs>>

\* rebuild_self in instance k: ::exit(status.normalize_to_exit_code())
Chain_Exit(k) ==
    /\ k \in DOMAIN procs
    /\ procs[k].pc = "rs_exit"
    /\ procs' = [procs EXCEPT ![k] =
                    Ended(@, <<"exit", exit_status(normalize_to_exit_code(@.status))>>)]
    /\ UNCHANGED <<files, cwd, resolveVars, indexVars, scanVars, callVars, envVars,
                   pc, trace, fileTimes, runVars, compile_result, exit_code, cout,
                   compiles, reexecs>>

\* main in instance k after rebuild_self returned: the downstream command
\* with run_and_check, then the end of main
Chain_Main(k) ==
    /\ k \in DOMAIN procs
    /\ procs[k].pc = "main_flags"
    /\ \/ procs' = [procs EXCEPT ![k] = Aborted(@)]
       \/ \E result \in Statuses :
             procs' = [procs EXCEPT ![k] =
                          IF Status_bool(result)
                          THEN Ended(@, <<"exit", exit_status(0)>>)
                          ELSE Aborted(@)]
    /\ UNCHANGED <<files, cwd, resolveVars, indexVars, scanVars, callVars, envVars,
                   pc, trace, fileTimes, runVars, compile_result, exit_code, cout,
                   compiles, reexecs>>

\* a signal kills a re-executed instance
Chain_Kill(k) ==
    /\ k \in DOMAIN procs
    /\ k > 1
    /\ procs[k].pc # "ended"
    /\ \E sig \in TermSignals : procs' = [procs EXCEPT ![k] = Ended(@, <<"signal", sig>>)]
    /\ UNCHANGED <<files, cwd, resolveVars, indexVars, scanVars, callVars, envVars,
                   pc, trace, fileTimes, runVars, compile_result, exit_code, cout,
                   compiles, reexecs>>

-----------------------------------------------------------------------------
(* Specifications *)

\* no direct call of cmd_run has returned
CallIdle ==
    /\ run_success = FALSE
    /\ run_exit_code = -1

\* no call of flags_from_env is in progress
EnvIdle ==
    /\ e_value = unset
    /\ e_args = <<>>
    /\ e_cxx = <<>>
    /\ e_pc = "idle"

\* no chain of instances is running
ChainIdle ==
    /\ procs = <<>>
    /\ compiles = 0
    /\ reexecs = 0

InitFiles ==
    /\ files \in SUBSET CandidateFiles
    /\ cwd \in WorkingDirs

\* calls of make::resolve
\* nothing but the operation a specification is about is running
OthersIdle == CallIdle /\ EnvIdle /\ ChainIdle

InitResolve == InitFiles /\ ResolveIdle /\ IndexIdle /\ BootIdle /\ ScanIdle /\ OthersIdle

NextResolve == CallResolve

SpecResolve == InitResolve /\ [][NextResolve]_vars

\* calls of make::includes_in_directory
InitIndex == InitFiles /\ ResolveIdle /\ IndexIdle /\ BootIdle /\ ScanIdle /\ OthersIdle

NextIndex == IndexBegin \/ IndexVisit \/ IndexReturn

SpecIndex == InitIndex /\ [][NextIndex]_vars

\* one run of main: the bootstrap, the process runner, the downstream command
InitBoot ==
    /\ files = {}
    /\ cwd = PROJ
    /\ ResolveIdle
    /\ IndexIdle
    /\ BootStart
    /\ ScanIdle
    /\ OthersIdle

NextBoot ==
    \/ Main_Start \/ RS_Check \/ RS_Backup \/ RS_Compile \/ RS_Reexec \/ RS_Exit
    \/ Main_Flags \/ Main_Return
    \/ CR_Entry \/ CR_Fork \/ Child_Exec \/ Child_Terminate \/ Child_Stop
    \/ Child_Continue \/ PidWait \/ RunAndCheck

SpecBoot == InitBoot /\ [][NextBoot]_vars

\* one call of make::cmd_run
InitRun ==
    /\ files = {}
    /\ cwd = PROJ
    /\ ResolveIdle
    /\ IndexIdle
    /\ ScanIdle
    /\ RunStart
    /\ OthersIdle

NextRun ==
    \/ CR_Entry
    \/ CR_Fork
    \/ Child_Exec
    \/ Child_Terminate
    \/ Child_Stop
    \/ Child_Continue
    \/ PidWait
    \/ CR_Return

SpecRun == InitRun /\ [][NextRun]_vars

\* main reading CXX from the environment
InitEnv ==
    /\ files = {}
    /\ cwd = PROJ
    /\ ResolveIdle
    /\ IndexIdle
    /\ BootIdle
    /\ ScanIdle
    /\ CallIdle
    /\ ChainIdle
    /\ EnvStart

NextEnv == Env_FlagsFromEnv \/ Env_OrDefault

SpecEnv == InitEnv /\ [][NextEnv]_vars

\* one start of the program by the user, and the instances it starts
InitChain ==
    /\ files = {}
    /\ cwd = PROJ
    /\ ResolveIdle
    /\ IndexIdle
    /\ ScanIdle
    /\ CallIdle
    /\ EnvIdle
    /\ ChainStart

NextChain ==
    \/ \E k \in 1..MaxDepth : Chain_Check(k)
    \/ \E k \in 1..MaxDepth : Chain_Backup(k)
    \/ \E k \in 1..MaxDepth : Chain_Compile(k)
    \/ \E k \in 1..MaxDepth : Chain_Reexec(k)
    \/ \E k \in 1..MaxDepth : Chain_Wait(k)
    \/ \E k \in 1..MaxDepth : Chain_Exit(k)
    \/ \E k \in 1..MaxDepth : Chain_Main(k)
    \/ \E k \in 1..MaxDepth : Chain_Kill(k)

SpecChain == InitChain /\ [][NextChain]_vars

\* every instance is a running process and the programs it waits for end:
\* while some instance has a step to take, one is taken
SpecChainFair == SpecChain /\ WF_vars(NextChain)

\* one call of make::includes
InitScan ==
    /\ files = {}
    /\ cwd = PROJ
    /\ ResolveIdle
    /\ IndexIdle
    /\ BootIdle
    /\ ScanStart
    /\ OthersIdle

NextScan == Scan_GetLine \/ Scan_Switch \/ Scan_LineRead \/ Scan_NextLine

SpecScan == InitScan /\ [][NextScan]_vars

\* includes is straight-line code of one thread: while it has a step to
\* take, it takes it
SpecScanFair == SpecScan /\ WF_vars(NextScan)

-----------------------------------------------------------------------------
(* Properties of the process runner and the bootstrap *)

\* the binary was older than its source when the process started
StartedStale == start_mtime < source_mtime

\* trace t is an initial part of trace u
IsPrefix(t, u) == Len(t) <= Len(u) /\ SubSeq(u, 1, Len(t)) = t

\* the process has ended
Terminated == pc \in {"exited", "aborted"}

\* what a process on the rebuild path does, to its end
RebuildRuns ==
    { <<"backup", "cmd_compile", "cmd_reexec", "exit">>,
      <<"backup", "cmd_compile", "cmd_reexec", "abort">>,
      <<"backup", "cmd_compile", "abort">>,
      <<"backup", "abort">>,
      <<"abort">> }

\* C3 as stated: after a launch failure the calling process aborts and
\* cmd_run returns no status to its caller.
C3_LaunchFailureNeverReturned ==
    (child_pid = -1 \/ child.launch = "failed") => pc \in {"pid_wait", "aborted"}

\* C3 amended: a failed fork aborts the calling process; a failed execvp
\* aborts the forked child, and when cmd_run returns it returns
\* Signaled{SIGABRT}, never an Exited status.
C3_LaunchFailureIsSignaled ==
    /\ child_pid = -1 => pc = "aborted"
    /\ (child.launch = "failed" /\ pc \notin {"pid_wait", "aborted"}) =>
          status = Status("SIGNAL", SIGABRT)

\* cmd_run has returned to its caller after execvp failed in the child
C3_Witness ==
    /\ pc = "cr_return"
    /\ child.launch = "failed"
    /\ status = Status("SIGNAL", SIGABRT)

\* C4: on the rebuild path the process does the backup, the compiler
\* command, the re-execution and its termination, each once and in this
\* order; rebuild_self never returns and no downstream command is issued.
C4_RebuildPathNeverReturns ==
    StartedStale =>
        /\ \E run \in RebuildRuns : IsPrefix(trace, run)
        /\ Terminated => trace \in RebuildRuns
        /\ (Terminated /\ Status_bool(compile_result)) =>
              /\ SubSeq(trace, 1, 3) = <<"backup", "cmd_compile", "cmd_reexec">>
              /\ Len(trace) = 4
              /\ old_program = [of |-> "program", mtime |-> start_mtime]

\* a stale binary was rebuilt and re-executed, and the process exited
C4_Witness ==
    /\ StartedStale
    /\ pc = "exited"
    /\ Status_bool(compile_result)
    /\ trace = <<"backup", "cmd_compile", "cmd_reexec", "exit">>

\* C5: on the rebuild path the exit code of the process is the exit code of
\* the re-executed program, or 128 plus the number of the signal that
\* killed it.
C5_ExitCodeForwarded ==
    (pc = "exited" /\ caller = "reexec") =>
        /\ child.cause[1] = "exit" => exit_code = child.cause[2]
        /\ child.cause[1] = "signal" => exit_code = 128 + child.cause[2]
        /\ child.cause[1] = "panic" => exit_code = 128 + SIGABRT

\* the re-executed program was killed by signal 9 and the process exited with 137
C5_Witness ==
    /\ pc = "exited"
    /\ caller = "reexec"
    /\ child.cause = <<"signal", 9>>
    /\ exit_code = 137

\* C6: with a binary not older than its source rebuild_self writes no
\* backup, issues no compiler command and no re-execution, and returns to
\* main.
C6_FreshBinaryIsNoOp ==
    ~StartedStale =>
        /\ old_program.of # "program"
        /\ \A k \in 1..Len(trace) : trace[k] \notin {"backup", "cmd_compile", "cmd_reexec"}
        /\ pc \notin {"rs_backup", "rs_compile", "rs_reexec"}
        /\ (pc \notin {"main", "rs_check"} /\ trace # <<"abort">>) =>
              Len(trace) > 0 /\ trace[1] = "return"

\* binary and source have the same modification time and main ran to its end
C6_Witness ==
    /\ start_mtime = source_mtime
    /\ pc = "exited"
    /\ trace = <<"return", "cmd_downstream", "exit">>
    /\ old_program.of # "program"

\* C7: when the compiler ends with anything but exit code 0 the process
\* aborts: no re-execution, no forwarding exit, no return to main.
C7_FailedCompileAborts ==
    (caller = "compile" /\ child.state = "reaped" /\ child.cause # <<"exit", 0>>) =>
        /\ pc \in {"cr_return", "aborted"}
        /\ \A k \in 1..Len(trace) : trace[k] \notin {"cmd_reexec", "exit", "return"}
        /\ pc = "aborted" => trace = <<"backup", "cmd_compile", "abort">>

\* the compiler exited with 1 and the process aborted
C7_Witness ==
    /\ caller = "compile"
    /\ child.state = "reaped"
    /\ child.cause = <<"exit", 1>>
    /\ compile_result = Status("EXIT", 1)
    /\ pc = "aborted"

-----------------------------------------------------------------------------
(* Properties of make::includes_in_directory *)

\* the regular files below the search path, by canonical path
FilesBelowRoot == {f \in files : IsBelow(f, Lookup(files, cwd, i_search_path))}

\* the extension of a file is in the allow-list
Allowed(f) == \E k \in 1..Len(i_extensions) : i_extensions[k] = extension(f)

\* C2: the returned index has a key for a regular file under the root if and
\* only if the file's extension is in the allow-list.
C2_IndexOnlyAllowedExtensions ==
    i_pc = "done" =>
        \A f \in FilesBelowRoot : (f \in DOMAIN includes_per_file) <=> Allowed(f)

-----------------------------------------------------------------------------
(* Properties of make::resolve *)

\* path::parent_path of the including file
directoryOf(p) == Parent(p)

\* the call has returned for target p, which is not an existing file when taken directly
ResolvedIndirect ==
    /\ r_pc = "done"
    /\ ~is_regular_file(files, cwd, r_include.include)

\* the search directories, by position, that hold the target
SearchHits ==
    { i \in 1..Len(r_include_paths) :
        is_regular_file(files, cwd, PathAppend(r_include_paths[i], r_include.include)) }

\* the call went past the absolute-path test and the quoted-relative attempt
ReachedSearchPaths ==
    /\ ResolvedIndirect
    /\ ~is_absolute(r_include.include)
    /\ ~(r_include.maybe_relative
         /\ is_regular_file(files, cwd, PathAppend(r_relative_to, r_include.include)))

\* C1: for a quoted include with a relative target that is not itself an
\* existing file, when directoryOf(relativeToFile)/target is an existing
\* regular file the result is that file's canonical path, whatever the
\* search paths hold.
C1_QuotedRelativeWins ==
    ( /\ ResolvedIndirect
      /\ r_include.maybe_relative
      /\ ~is_absolute(r_include.include)
      /\ r_relative_to \in files
      /\ is_regular_file(files, cwd,
                         PathAppend(directoryOf(r_relative_to), r_include.include)) )
    => r_result = canonical(files, cwd,
                            PathAppend(directoryOf(r_relative_to), r_include.include))

\* C8: an absolute target that is not an existing regular file resolves to
\* NotFound, whatever the search paths and the including file's directory hold.
C8_AbsoluteNeverFallsBack ==
    (ResolvedIndirect /\ is_absolute(r_include.include)) => r_result = nullopt

\* an absolute target /b.h that does not exist, with a search directory
\* holding a file b.h
C8_Witness ==
    /\ r_pc = "done"
    /\ r_include.include = SLASH \o B_H
    /\ r_include_paths = <<INCLUDE_DIR>>
    /\ INCLUDE_B_H \in files
    /\ r_result = nullopt

\* C9: at the search-path step the result is directory/target of the first
\* directory in list order holding the target, and with two directories that
\* both hold it the swapped list gives the other directory's file.
C9_FirstSearchPathWins ==
    ReachedSearchPaths =>
        /\ \A i \in SearchHits :
              (\A j \in SearchHits : i <= j) =>
                 r_result = canonical(files, cwd,
                                PathAppend(r_include_paths[i], r_include.include))
        /\ (Len(r_include_paths) = 2 /\ SearchHits = {1, 2}) =>
              resolve(files, cwd, r_include,
                      <<r_include_paths[2], r_include_paths[1]>>, r_relative_to)
                = canonical(files, cwd,
                            PathAppend(r_include_paths[2], r_include.include))

\* two different search directories both hold b.h and the earlier one won
C9_Witness ==
    /\ ReachedSearchPaths
    /\ r_include.include = B_H
    /\ r_include_paths = <<LIB, INCLUDE_DIR>>
    /\ SearchHits = {1, 2}
    /\ r_result = LIB_B_H

\* C10: an angle-bracket include whose target is not directly an existing
\* file and is held by no search directory resolves to NotFound, even with a
\* file of that name next to the including file.
C10_AngleSearchPathOnly ==
    (ResolvedIndirect /\ ~r_include.maybe_relative /\ SearchHits = {})
    => r_result = nullopt

\* <b.h> included from /proj/src/a.cc with /proj/src/b.h present and no
\* search directory holding b.h
C10_Witness ==
    /\ ResolvedIndirect
    /\ r_include = [include |-> B_H, maybe_relative |-> FALSE]
    /\ r_relative_to = SRC_A_CC
    /\ {SRC_A_CC, SRC_B_H} \subseteq files
    /\ SearchHits = {}
    /\ r_result = nullopt

-----------------------------------------------------------------------------
(* the shape of a line, read off the line itself *)

\* the position of the first character at or after `from` that is not a
\* blank, 0 if there is none
FirstNonBlank(line, from) ==
    LET S == { k \in from..Len(line) : line[k] \notin Blanks } IN
    IF S = {} THEN 0 ELSE CHOOSE k \in S : \A j \in S : k <= j

HashAt(line) == FirstNonBlank(line, 1)

HasHash(line) == HashAt(line) > 0 /\ line[HashAt(line)] = "#"

KeywordAt(line) == FirstNonBlank(line, HashAt(line) + 1)

HasKeyword(line) ==
    /\ HasHash(line)
    /\ KeywordAt(line) > 0
    /\ KeywordAt(line) + 6 <= Len(line)
    /\ SubSeq(line, KeywordAt(line), KeywordAt(line) + 6)
         = <<"i", "n", "c", "l", "u", "d", "e">>

OpenAt(line) == FirstNonBlank(line, KeywordAt(line) + 7)

HasOpen(line) ==
    /\ HasKeyword(line)
    /\ OpenAt(line) > 0
    /\ line[OpenAt(line)] \in {"<", "\""}

Closer(open) == IF open = "<" THEN ">" ELSE "\""

ClosersAt(line) ==
    { e \in (OpenAt(line) + 1)..Len(line) : line[e] = Closer(line[OpenAt(line)]) }

HasClose(line) == HasOpen(line) /\ ClosersAt(line) # {}

CloseAt(line) == CHOOSE e \in ClosersAt(line) : \A j \in ClosersAt(line) : e <= j

\* the Include a well-formed line names
Named(line) ==
    [include |-> SubSeq(line, OpenAt(line) + 1, CloseAt(line) - 1),
     maybe_relative |-> line[OpenAt(line)] = "\""]

\* C11: a line of the form blanks # blanks include blanks, opening < or ",
\* target, matching closing delimiter, anything: the scanner emplaces exactly
\* once for it, the Include whose target is the text between the opening
\* delimiter and the first matching closing one, blanks included, and whose
\* flag is true exactly for the quote form
C11_ValidLineEmitsOneInclude ==
    /\ (s_pc = "next_line" /\ HasClose(s_line)) =>
          (s_emits = 1 /\ s_line_out = {Named(s_line)})
    /\ (s_pc = "done" /\ Len(s_file) = 1 /\ HasClose(s_file[1])) =>
          s_includes = {Named(s_file[1])}

\* the line "\t # \tinclude \t"a b" >" gave the target "a b", quoted
C11_Witness ==
    /\ s_pc = "done"
    /\ s_file = << <<"\t", " ", "#", " ", "\t">> \o INCLUDE_KW \o
                   <<" ", "\t", "\"", "a", " ", "b", "\"", " ", ">">> >>
    /\ s_includes = {[include |-> <<"a", " ", "b">>, maybe_relative |-> TRUE]}

\* C12: a line whose first non-blank character is not #, a line with # not
\* followed by include, a line with no < or " as the next non-blank
\* character after include, and a line whose opening delimiter has no
\* matching closing delimiter after it, all emit nothing
C12_OtherLinesEmitNothing ==
    /\ (s_pc = "next_line" /\ ~HasClose(s_line)) =>
          (s_emits = 0 /\ s_line_out = {})
    /\ (s_pc = "done" /\ \A k \in 1..Len(s_file) : ~HasClose(s_file[k])) =>
          s_includes = {}

\* a line whose opening quote is never closed was read to its end and nothing
\* was emitted
C12_Witness ==
    /\ s_pc = "next_line"
    /\ s_emits = 0
    /\ s_line = <<"#">> \o INCLUDE_KW \o <<" ", "\"", "v">>
    /\ HasOpen(s_line)
    /\ ~HasClose(s_line)

\* the lines of a file, as a set
Range(seq) == { seq[k] : k \in 1..Len(seq) }

\* C13: the state of the scanner never carries from one line to the next:
\* what a line emits is what scanning it alone from Waits_For_Hash emits,
\* whatever lines came before it, and the result for a file is the union of
\* these over its lines, so it depends only on which lines the file has
C13_StateNeverCarries ==
    /\ s_pc = "next_line" => s_line_out = ScanLine("Waits_For_Hash", s_line)
    /\ s_pc = "done" =>
          s_includes = UNION { ScanLine("Waits_For_Hash", line) : line \in Range(s_file) }

\* the file  #include "  /  b.h"  : the first line leaves the scanner after
\* an unclosed quote, the second line would close it, and nothing came out
C13_Witness ==
    /\ s_pc = "done"
    /\ s_file = << <<"#">> \o INCLUDE_KW \o <<" ", "\"">>, B_H \o <<"\"">> >>
    /\ s_includes = {}

\* how far along the line a state is
Rank(state) ==
    CASE state = "Waits_For_Hash" -> 1
      [] state = "Waits_For_Include" -> 2
      [] state = "Waits_For_Opening" -> 3
      [] state = "Waits_For_Closing_Greater_Then" -> 4
      [] state = "Waits_For_Closing_Quote" -> 4

\* the switch has handled a closing state for the current line
ClosingHandled == s_visited # <<>> /\ Rank(s_visited[Len(s_visited)]) = 4

ScanForwardOnly ==
    \* the switch never sees a value outside the enum
    /\ s_state \in ScanStates
    \* the states handled for a line are Waits_For_Hash, Waits_For_Include,
    \* Waits_For_Opening, one closing state, each at most once and in this order
    /\ s_visited # <<>> => s_visited[1] = "Waits_For_Hash"
    /\ \A j \in 1..(Len(s_visited) - 1) : Rank(s_visited[j + 1]) = Rank(s_visited[j]) + 1
    /\ (s_pc = "scan" /\ s_visited # <<>>) =>
          Rank(s_state) = Rank(s_visited[Len(s_visited)]) + 1
    \* once a closing state is handled the line is over
    /\ ClosingHandled => s_pc # "scan"
    \* at most one Include per line, and only from a closing state
    /\ s_emits <= 1
    /\ s_emits = 1 => ClosingHandled
    \* every pass of the switch that stays in the loop shortens l
    /\ s_pc = "scan" => Len(s_l) + Len(s_visited) <= Len(s_line)

\* C19: scanning a line is forward-only (Waits_For_Hash, Waits_For_Include,
\* Waits_For_Opening, then one closing state, none entered twice, never a
\* value outside the enum, the line over once a closing state is handled, at
\* most one Include per line) and it terminates: a line being scanned always
\* gets to next_line, and the file to its end
C19_ScanForwardAndTerminates ==
    /\ []ScanForwardOnly
    /\ (s_pc = "scan") ~> (s_pc = "next_line")
    /\ <>(s_pc = "done")

\* a line went through all four states and emitted its one Include
C19_Witness ==
    /\ s_pc = "next_line"
    /\ s_visited = <<"Waits_For_Hash", "Waits_For_Include", "Waits_For_Opening",
                     "Waits_For_Closing_Quote">>
    /\ s_emits = 1
    /\ s_l # <<>>

\* C14: a Status is a success exactly when it is Exited{0}; Exited{n} with
\* n # 0 and every Signaled{s} are failures; the normalized exit code is n
\* for Exited{n} and 128 + s for Signaled{s}
C14_StatusNormalization ==
    pc = "returned" =>
       /\ status.kind \in {"EXIT", "SIGNAL"}
       /\ run_success <=> (status.kind = "EXIT" /\ status.exit_code = 0)
       /\ status.kind = "SIGNAL" => ~run_success
       /\ status.kind = "EXIT" => run_exit_code = status.exit_code
       /\ status.kind = "SIGNAL" => run_exit_code = 128 + status.exit_code

\* a child killed by signal 9 was reported as a failure with code 137
C14_Witness ==
    /\ pc = "returned"
    /\ status = Status("SIGNAL", 9)
    /\ ~run_success
    /\ run_exit_code = 137

\* C15: cmd_run has a Status only once the child has ended and been waited
\* for, Exited{code} for a child that exited and Signaled{signal} for one a
\* signal killed; while the child is alive (forked, running or stopped, its
\* stop reported or not) the caller is still in pid_wait, or has aborted
\* there, and has no Status
C15_StatusOnlyAfterTermination ==
    /\ (status # NoStatus \/ pc \in {"cr_return", "returned"}) =>
          /\ child.state = "reaped"
          /\ child.cause[1] = "exit" => status = Status("EXIT", child.cause[2])
          /\ child.cause[1] = "signal" => status = Status("SIGNAL", child.cause[2])
          /\ child.cause[1] = "panic" => status = Status("SIGNAL", SIGABRT)
    /\ child.state \in {"forked", "running", "stopped"} =>
          (status = NoStatus /\ pc \in {"pid_wait", "aborted"})

\* waitpid reported a stop, pid_wait went round, and later returned
\* Signaled{9}
C15_Witness ==
    /\ pc = "cr_return"
    /\ child.reported
    /\ child.cause = <<"signal", 9>>
    /\ status = Status("SIGNAL", 9)

\* C16: cmd_run of an empty argument vector aborts the process before
\* anything is written to std::cout and before fork, and returns no Status
C16_EmptyArgvAborts ==
    argv = <<>> =>
       /\ pc \in {"cr_entry", "aborted"}
       /\ cout = <<>>
       /\ child_pid = 0
       /\ child = NoChild
       /\ status = NoStatus

\* cmd_run(<<>>) has aborted
C16_Witness ==
    /\ caller = "direct"
    /\ argv = <<>>
    /\ pc = "aborted"
    /\ trace = <<"abort">>

\* white space in a value
Whitespace == {" ", "\t"}

HasQuote(value) == \E k \in 1..Len(value) : value[k] \in {"'", "\""}

\* where the maximal runs of characters that are not white space begin
RunStarts(value) ==
    { a \in 1..Len(value) :
        value[a] \notin Whitespace /\ (a = 1 \/ value[a - 1] \in Whitespace) }

\* where the run that begins at a ends
RunEnd(value, a) ==
    CHOOSE b \in a..Len(value) :
       /\ \A k \in a..b : value[k] \notin Whitespace
       /\ b = Len(value) \/ value[b + 1] \in Whitespace

\* the maximal runs of characters that are not white space, in order
Runs(value) ==
    LET n == Cardinality(RunStarts(value))
        at == CHOOSE f \in [1..n -> RunStarts(value)] :
                 \A j \in 1..(n - 1) : f[j] < f[j + 1]
    IN [j \in 1..n |-> SubSeq(value, at[j], RunEnd(value, at[j]))]

\* C17: for a value without quote characters flags_from_env returns, in
\* order, the maximal runs of characters that are neither space nor tab; an
\* unset value gives the empty list; and for an empty list (unset or
\* all-blank value) or_default gives the default compiler name
C17_TokenizesOnWhitespace ==
    /\ (e_pc \in {"parsed", "done"} /\ e_value = unset) => e_args = <<>>
    /\ (e_pc \in {"parsed", "done"} /\ e_value # unset /\ ~HasQuote(e_value)) =>
          e_args = Runs(e_value)
    /\ (e_pc = "done" /\ (e_value = unset \/ (~HasQuote(e_value) /\ Runs(e_value) = <<>>))) =>
          e_cxx = << <<"g", "+", "+">> >>

\* the same for values in which the only white space is the space character
SpaceOnlyValuesTokenize ==
    (\A k \in 1..Len(e_value) : e_value[k] # "\t") => C17_TokenizesOnWhitespace

\* how often a step occurs in the trace of the calling process
Occurrences(step) == Cardinality({ k \in 1..Len(trace) : trace[k] = step })

\* C18: the forked process never gets back into the code of the caller:
\* it is in the child branch of cmd_run before execvp, or it is the target
\* program, or execvp failed and panic aborted it; the steps after a
\* cmd_run call (the re-execution, the exit, the downstream command) are
\* taken by the calling process alone, each at most once
C18_ChildNeverReturns ==
    /\ child.state \in {"none", "forked", "running", "stopped", "zombie", "reaped"}
    /\ child.state = "forked" => child.launch = "pending"
    /\ child.launch = "ok" =>
          /\ child.state \in {"running", "stopped", "zombie", "reaped"}
          /\ child.cause[1] \in {"none", "exit", "signal"}
    /\ child.launch = "failed" =>
          /\ child.state \in {"zombie", "reaped"}
          /\ child.cause = <<"panic", 0>>
          /\ WIFSIGNALED(child.wstatus) /\ WTERMSIG(child.wstatus) = SIGABRT
    /\ \A step \in {"cmd_compile", "cmd_reexec", "cmd_downstream", "exit", "return"} :
          Occurrences(step) <= 1
    /\ Occurrences("cmd_reexec") + Occurrences("cmd_downstream") <= 1

\* execvp of the re-execution failed: the child was aborted and the calling
\* process went on alone to its one exit
C18_Witness ==
    /\ pc = "exited"
    /\ caller = "reexec"
    /\ child.launch = "failed"
    /\ child.state = "reaped"
    /\ trace = <<"backup", "cmd_compile", "cmd_reexec", "exit">>

\* every instance of the chain has ended
ChainEnded == \A k \in 1..Len(procs) : procs[k].pc = "ended"

\* at most one re-executed instance, and it takes the no-op branch
ChainDepthOne ==
    /\ Len(procs) <= 2
    /\ compiles <= 1
    /\ reexecs <= 1
    /\ Len(procs) = 2 =>
          /\ compiles = 1 /\ reexecs = 1
          /\ program_mtime >= source_mtime
          /\ procs[2].pc \in {"rs_check", "main_flags", "ended"}

\* C20: when a successful compile leaves the binary not older than the
\* source and nothing else touches the two files, the re-executed binary
\* takes the no-op branch of rebuild_self: one start of the program issues at
\* most one compiler command and at most one re-execution, the chain has at
\* most two instances, and every instance ends
C20_RebuildChainDepthOne == []ChainDepthOne /\ <>ChainEnded

\* a stale binary was rebuilt and re-executed; the new instance found
\* nothing to rebuild, ran main and exited with 0, and so did the first one
C20_Witness ==
    /\ Len(procs) = 2
    /\ ChainEnded
    /\ compiles = 1
    /\ reexecs = 1
    /\ program_mtime = source_mtime
    /\ procs[1].status = Status("EXIT", 0)
    /\ procs[1].end = <<"exit", 0>>
    /\ procs[2].end = <<"exit", 0>>

====
